---- MODULE Spec2Model ----
(***************************************************************************)
(* The stream stages of minio-js transformers: getSizeLimiter,             *)
(* getConcater, getErrorTransformer and getHashSummer.  Each stage is a    *)
(* Through2 transform: a per-chunk handler, a flush handler run once when  *)
(* the upstream ends, and the readable side the handlers push to.          *)
(*                                                                         *)
(* A Buffer is a sequence of byte values, a decoded string a sequence of   *)
(* code points, a message a sequence of text pieces.  Every other          *)
(* JavaScript value is a record with a "type" (typeof, "null" and "error"  *)
(* kept apart) and its truthiness.                                         *)
(***************************************************************************)
EXTENDS Integers, Sequences, FiniteSets, TLC

\* ------------------------------------------------------------------ bounds

\* Largest expected size given to getSizeLimiter.
MaxSize == 3
\* Largest length of one chunk.
MaxChunkLen == 2
\* Most chunks delivered to one getSizeLimiter instance.
MaxChunks == 3
\* Most chunks delivered to one getConcater instance.
MaxBodyChunks == 2
\* Most chunks delivered to one getHashSummer instance.
MaxHashChunks == 3
\* With two instances of one stage: the largest expected size, the largest
\* length of one chunk and the most chunks delivered to one instance.
MaxPairSize == 2
MaxPairChunkLen == 1
MaxPairChunks == 1

\* Byte values chunks are made of: "A", and 0xFF, which no UTF-8 text holds.
Bytes == {65, 255}

RECURSIVE SeqsUpTo(_, _)
SeqsUpTo(S, n) ==
  IF n = 0 THEN {<<>>}
  ELSE LET shorter == SeqsUpTo(S, n - 1)
       IN  shorter \cup {Append(s, b) : s \in {t \in shorter : Len(t) = n - 1}, b \in S}

\* The chunks the upstream may deliver.
Chunks == SeqsUpTo(Bytes, MaxChunkLen)

\* ----------------------------------------------------------------- helpers

Min(a, b) == IF a < b THEN a ELSE b
Max(a, b) == IF a > b THEN a ELSE b

\* Buffer.concat(list)
RECURSIVE BufferConcat(_)
BufferConcat(list) ==
  IF list = <<>> THEN <<>> ELSE Head(list) \o BufferConcat(Tail(list))

\* buf.slice(0, end): a negative end counts from the end of the buffer, and
\* the result never reaches outside the buffer.
BufferSlice(buf, end) ==
  LET e == IF end < 0 THEN Max(Len(buf) + end, 0) ELSE Min(end, Len(buf))
  IN  SubSeq(buf, 1, e)

\* `${n}` for an integer n: its decimal digits, "-" first when negative.
Digit(d) == <<"0", "1", "2", "3", "4", "5", "6", "7", "8", "9">>[d + 1]

RECURSIVE NatToString(_)
NatToString(n) ==
  IF n < 10 THEN <<Digit(n)>> ELSE Append(NatToString(n \div 10), Digit(n % 10))

NumberToString(n) == IF n < 0 THEN <<"-">> \o NatToString(-n) ELSE NatToString(n)

\* ------------------------------------------------ JavaScript values

JsUndefined == [type |-> "undefined", truthy |-> FALSE]
JsNull == [type |-> "null", truthy |-> FALSE]
JsBuffer(b) == [type |-> "buffer", truthy |-> TRUE, bytes |-> b]
JsError(name, message) ==
  [type |-> "error", truthy |-> TRUE, name |-> name, message |-> message]
JsFalse == [type |-> "boolean", truthy |-> FALSE]
JsNumber(n) == [type |-> "number", truthy |-> n # 0, num |-> n]
JsString(str) == [type |-> "string", truthy |-> str # "", str |-> str]
JsObject(tag) == [type |-> "object", truthy |-> TRUE, tag |-> tag]
JsFunction(fn) == [type |-> "function", truthy |-> TRUE, fn |-> fn]

\* buf.toString(): UTF-8 decoding.  A byte below 0x80 is the code point of
\* that value; a byte from 0xF8 up starts no UTF-8 sequence and continues
\* none, so each decodes to U+FFFD on its own.  (Bytes holds no others.)
RECURSIVE BufferToString(_)
BufferToString(buf) ==
  IF buf = <<>> THEN <<>>
  ELSE <<IF Head(buf) < 128 THEN Head(buf) ELSE 65533>> \o BufferToString(Tail(buf))

\* isFunction of helpers.js
isFunction(v) == v.type = "function"

\* ------------------------------------------- Through2 (readable-stream)

\* The readable side of a transform: the items delivered downstream, whether
\* end-of-stream was signalled, and the 'error' events raised.
NewReadable == [out |-> <<>>, ended |-> FALSE, errors |-> <<>>]

PushAfterEOF == JsError("Error", <<"stream.push() after EOF">>)

\* this.push(null)
PushNull(rs) == [rs EXCEPT !.ended = TRUE]

\* this.push(item): null signals end-of-stream; an empty Buffer is dropped
\* unless the stream is in object mode; a push after end-of-stream raises
\* an error and delivers nothing.
Push(rs, objMode, item) ==
  IF item.type = "null" THEN PushNull(rs)
  ELSE IF objMode \/ (item.type = "buffer" /\ Len(item.bytes) > 0)
       THEN IF rs.ended
            THEN [rs EXCEPT !.errors = Append(@, PushAfterEOF)]
            ELSE [rs EXCEPT !.out = Append(@, item)]
  ELSE rs

\* cb(er) of the per-chunk handler: a truthy er is raised as 'error'.
TransformCb(rs, er) ==
  IF er.truthy THEN [rs EXCEPT !.errors = Append(@, er)] ELSE rs

\* cb(er) of the flush handler: a truthy er is raised as 'error' and nothing
\* else happens; otherwise the transform signals end-of-stream itself.
FlushCb(rs, er) ==
  IF er.truthy THEN [rs EXCEPT !.errors = Append(@, er)] ELSE PushNull(rs)

\* One call a handler made, in the order the handlers made them.
Call(op, chunk) == [op |-> op, chunk |-> chunk]

VARIABLES
  slState,        \* "none" before getSizeLimiter, then "open", then "flushed"
  size,           \* the expected size given to getSizeLimiter
  sizeRemaining,  \* bytes still allowed through
  slIn,           \* the chunks delivered to the size limiter so far
  slCalls,        \* the calls its handlers made: push, unpipe, push(null), cb
  slRs            \* its readable side

slVars == <<slState, size, sizeRemaining, slIn, slCalls, slRs>>

VARIABLES
  ccState,      \* "none" before getConcater, "threw" when it threw, else
                \* "open", then "flushed"
  response,     \* the response given to getErrorTransformer, if that built it
  given,        \* that response as it was when getErrorTransformer was called
  headerReads,  \* the header names read from the response, in order
  parser,       \* the parser argument
  emitError,    \* the emitError argument, by its truthiness
  objectMode,   \* whether the stream is in object mode
  bufs,         \* the chunks buffered so far
  ccIn,         \* the chunks delivered to the concater so far
  parserCalls,  \* the texts the parser was called with
  parseErrorCalls, \* the arguments xmlParsers.parseError was called with
  thrown,       \* the exceptions thrown by getConcater or its handlers
  ccRs          \* its readable side

ccVars ==
  <<ccState, response, given, headerReads, parser, emitError, objectMode, bufs, ccIn,
    parserCalls, parseErrorCalls, thrown, ccRs>>

VARIABLES
  hsState,      \* "none" before getHashSummer, then "open", then "flushed"
  anonymous,    \* the anonymous argument, by its truthiness
  md5,          \* the md5 hash object
  sha256,       \* the sha256 hash object
  hsIn,         \* the chunks delivered to the hash summer so far
  hsRs          \* its readable side

hsVars == <<hsState, anonymous, md5, sha256, hsIn, hsRs>>

\* A second instance of each stage: what its call of getSizeLimiter,
\* getConcater or getHashSummer created, kept while the handlers of the first
\* instance run.
VARIABLES
  slParked,     \* the state of the other size limiter
  ccParked,     \* the state of the other concater
  hsParked      \* the state of the other hash summer

vars == <<slVars, ccVars, hsVars, slParked, ccParked, hsParked>>

\* What a step of one stage leaves alone: the other stages, and every
\* instance but the one whose handler runs.
slOthers == <<ccVars, hsVars, slParked, ccParked, hsParked>>
ccOthers == <<slVars, hsVars, slParked, ccParked, hsParked>>
hsOthers == <<slVars, ccVars, slParked, ccParked, hsParked>>

\* ------------------------------------------------------- getSizeLimiter

IncorrectSizeError(n) ==
  JsError("IncorrectSizeError",
          <<"size of the input stream is not equal to the expected size(">>
            \o NumberToString(n) \o <<")">>)

\* Faulty variant: the chunk's length, whatever remains.
SliceLengthWhole(chunk, remaining) == Len(chunk)

\* var length = Math.min(chunk.length, sizeRemaining)
SliceLength(chunk, remaining) == Min(Len(chunk), remaining)

\* Faulty variant: the chunk is never cut.
TruncateNever(chunk, length) == chunk

\* if (length < chunk.length) chunk = chunk.slice(0, length)
Truncate(chunk, length) ==
  IF length < Len(chunk) THEN BufferSlice(chunk, length) ELSE chunk

\* Faulty variant: chunker is not unpiped.
StopCallsStreamOnly == <<Call("stream.unpipe", <<>>), Call("push(null)", <<>>)>>

\* The calls of the per-chunk handler once sizeRemaining is zero.
StopCalls ==
  <<Call("stream.unpipe", <<>>), Call("chunker.unpipe", <<>>), Call("push(null)", <<>>)>>

getSizeLimiter(n) ==
  /\ slState = "none"
  /\ slState' = "open"
  /\ size' = n
  /\ sizeRemaining' = n
  /\ slIn' = <<>>
  /\ slCalls' = <<>>
  /\ slRs' = NewReadable
  /\ UNCHANGED slOthers

\* The per-chunk handler.  Chunks may still arrive after the producers were
\* unpiped (they were already in flight), but never after the upstream ended.
SizeLimiterTransform(chunk) ==
  LET length == SliceLength(chunk, sizeRemaining)
      sliced == Truncate(chunk, length)
      left == sizeRemaining - length
      pushed == Push(slRs, TRUE, JsBuffer(sliced))
  IN  /\ slState = "open"
      /\ Len(slIn) < MaxChunks
      /\ slIn' = Append(slIn, chunk)
      /\ sizeRemaining' = left
      /\ slCalls' = slCalls \o <<Call("push", sliced)>>
                      \o (IF left = 0 THEN StopCalls ELSE <<>>)
                      \o <<Call("cb", <<>>)>>
      /\ slRs' = TransformCb(IF left = 0 THEN PushNull(pushed) ELSE pushed, JsUndefined)
      /\ UNCHANGED <<slState, size>>
      /\ UNCHANGED slOthers

\* Faulty variant: only an overrun counts as a mismatch.
SizeMismatchOverrun == sizeRemaining < 0

\* if (sizeRemaining !== 0)
SizeMismatch == sizeRemaining # 0

\* Faulty variant: the message carries what remained, not the expected size.
FlushErrorRemaining == IncorrectSizeError(sizeRemaining)

\* new errors.IncorrectSizeError(`... the expected size(${size})`)
FlushError == IncorrectSizeError(size)

\* The flush handler, run once when the upstream ends.
SizeLimiterFlush ==
  /\ slState = "open"
  /\ slState' = "flushed"
  /\ IF SizeMismatch
     THEN /\ slCalls' = Append(slCalls, Call("cb(err)", <<>>))
          /\ slRs' = FlushCb(slRs, FlushError)
     ELSE /\ slCalls' = slCalls \o <<Call("push(null)", <<>>), Call("cb", <<>>)>>
          /\ slRs' = FlushCb(PushNull(slRs), JsUndefined)
  /\ UNCHANGED <<size, sizeRemaining, slIn>>
  /\ UNCHANGED slOthers

SizeLimiterInit ==
  /\ slState = "none"
  /\ size = 0
  /\ sizeRemaining = 0
  /\ slIn = <<>>
  /\ slCalls = <<>>
  /\ slRs = NewReadable

SizeLimiterNext ==
  \/ \E n \in 0..MaxSize : getSizeLimiter(n)
  \/ \E chunk \in Chunks : SizeLimiterTransform(chunk)
  \/ SizeLimiterFlush

\* ---------------------------------------------------------- getConcater

\* The values getConcater may be given as its parser: none, values that are
\* not functions (falsy and truthy), and functions.  The function "parse"
\* returns an object made from its text, "returnsFalse" returns false.
ParserArgs ==
  { JsUndefined, JsNull, JsNumber(0), JsString(""), JsFalse,
    JsNumber(42), JsString("parse"), JsObject("parser"),
    JsFunction("parse"), JsFunction("returnsFalse") }

\* The status codes of the responses given to getErrorTransformer.
StatusCodes == {200, 301, 302, 307, 403, 404, 405, 418, 500, 501}

\* The headers of a response: the three S3 headers set, or none of them.
HeaderNames == {"x-amz-request-id", "x-amz-id-2", "x-amz-bucket-region"}

HeaderSets ==
  { [h \in HeaderNames |-> JsUndefined],
    [h \in HeaderNames |-> JsString(h)] }

Responses ==
  { [type |-> "object", truthy |-> TRUE, statusCode |-> sc, headersSent |-> hs,
     headers |-> hd] : sc \in StatusCodes, hs \in BOOLEAN, hd \in HeaderSets }

\* response.getHeader(name)
getHeader(resp, name) == resp.headers[name]

\* Faulty variant: 501 gets a kind of its own.
ErrorCodeNotImplemented(statusCode) ==
  CASE statusCode = 301 -> "MovedPermanently"
    [] statusCode = 307 -> "TemporaryRedirect"
    [] statusCode = 403 -> "AccessDenied"
    [] statusCode = 404 -> "NotFound"
    [] statusCode = 405 -> "MethodNotAllowed"
    [] statusCode = 501 -> "NotImplemented"
    [] OTHER -> "UnknownError"

\* code, by the if-chain on statusCode
ErrorCode(statusCode) ==
  IF statusCode = 301 THEN "MovedPermanently"
  ELSE IF statusCode = 307 THEN "TemporaryRedirect"
  ELSE IF statusCode = 403 THEN "AccessDenied"
  ELSE IF statusCode = 404 THEN "NotFound"
  ELSE IF statusCode = 405 THEN "MethodNotAllowed"
  ELSE IF statusCode = 501 THEN "MethodNotAllowed"
  ELSE "UnknownError"

\* message, by the same if-chain
ErrorMessage(statusCode) ==
  IF statusCode = 301 THEN <<"Moved Permanently">>
  ELSE IF statusCode = 307 THEN <<"Are you using the correct endpoint URL?">>
  ELSE IF statusCode = 403 THEN <<"Valid and authorized credentials required">>
  ELSE IF statusCode = 404 THEN <<"Not Found">>
  ELSE IF statusCode = 405 THEN <<"Method Not Allowed">>
  ELSE IF statusCode = 501 THEN <<"Method Not Allowed">>
  ELSE NumberToString(statusCode)

\* Faulty variant: the headers are read whether or not they were sent.
HeaderInfoAlwaysRead(resp) ==
  [amzRequestid |-> getHeader(resp, "x-amz-request-id"),
   amzId2 |-> getHeader(resp, "x-amz-id-2"),
   amzBucketRegion |-> getHeader(resp, "x-amz-bucket-region")]

\* headerInfo: each field read only if response.headersSent
HeaderInfo(resp) ==
  [amzRequestid |-> IF resp.headersSent THEN getHeader(resp, "x-amz-request-id") ELSE JsNull,
   amzId2 |-> IF resp.headersSent THEN getHeader(resp, "x-amz-id-2") ELSE JsNull,
   amzBucketRegion |-> IF resp.headersSent THEN getHeader(resp, "x-amz-bucket-region") ELSE JsNull]

\* The response.getHeader calls that building headerInfo makes.
HeaderReadsOf(resp) ==
  IF resp.headersSent
  THEN <<"x-amz-request-id", "x-amz-id-2", "x-amz-bucket-region">>
  ELSE <<>>

\* new errors.S3Error(message), then e.code = code and each headerInfo field
S3Error(code, message, headerInfo) ==
  [type |-> "error", truthy |-> TRUE, name |-> "S3Error", message |-> message,
   code |-> code, amzRequestid |-> headerInfo.amzRequestid,
   amzId2 |-> headerInfo.amzId2, amzBucketRegion |-> headerInfo.amzBucketRegion]

\* xmlParsers.parseError(xmlString, headerInfo): an error made from both
parseError(xmlString, headerInfo) ==
  [type |-> "error", truthy |-> TRUE, name |-> "S3Error", xml |-> xmlString,
   headerInfo |-> headerInfo]

\* The parser getErrorTransformer gives to getConcater, with what it closes
\* over.
ErrorParser(resp) ==
  [type |-> "function", truthy |-> TRUE, fn |-> "errorParser",
   code |-> ErrorCode(resp.statusCode), message |-> ErrorMessage(resp.statusCode),
   headerInfo |-> HeaderInfo(resp)]

\* Faulty variant: the body is never looked at.
NoXmlAlways(xmlString) == TRUE

\* if (!xmlString)
NoXml(xmlString) == xmlString = <<>>

\* parser(text)
CallParser(p, text) ==
  CASE p.fn = "parse" -> [type |-> "object", truthy |-> TRUE, parsed |-> text]
    [] p.fn = "returnsFalse" -> JsFalse
    [] p.fn = "errorParser" ->
         IF NoXml(text) THEN S3Error(p.code, p.message, p.headerInfo)
         ELSE parseError(text, p.headerInfo)

\* The calls of xmlParsers.parseError that parser(text) makes.
ParseErrorCallsOf(p, text) ==
  IF p.fn = "errorParser" /\ ~NoXml(text)
  THEN <<[xmlString |-> text, headerInfo |-> p.headerInfo]>>
  ELSE <<>>

ParserTypeError == JsError("TypeError", <<"parser should be of type \"function\"">>)

NotAFunction == JsError("TypeError", <<"parser is not a function">>)

\* Faulty variant: no parser argument is rejected.
ParserRejectedNever(p) == FALSE

\* if (parser && !isFunction(parser))
ParserRejected(p) == p.truthy /\ ~isFunction(p)

\* Faulty variant: every concater is in object mode.
ObjectModeAlways(p) == TRUE

\* var objectMode = false; if (parser) objectMode = true
ObjectModeFor(p) == p.truthy

\* The body of getConcater(p, e).
Concater(p, e) ==
  /\ parser' = p
  /\ emitError' = e
  /\ bufs' = <<>>
  /\ ccIn' = <<>>
  /\ parserCalls' = <<>>
  /\ parseErrorCalls' = <<>>
  /\ ccRs' = NewReadable
  /\ IF ParserRejected(p)
     THEN /\ ccState' = "threw"
          /\ thrown' = <<ParserTypeError>>
          /\ objectMode' = FALSE
     ELSE /\ ccState' = "open"
          /\ thrown' = <<>>
          /\ objectMode' = ObjectModeFor(p)

getConcater(p, e) ==
  /\ ccState = "none"
  /\ response' = JsUndefined
  /\ given' = JsUndefined
  /\ headerReads' = <<>>
  /\ Concater(p, e)
  /\ UNCHANGED ccOthers

getErrorTransformer(resp) ==
  /\ ccState = "none"
  /\ response' = resp
  /\ given' = resp
  /\ headerReads' = HeaderReadsOf(resp)
  /\ Concater(ErrorParser(resp), TRUE)
  /\ UNCHANGED ccOthers

\* The response changes after getErrorTransformer returned: its headers are
\* sent, or set.
ResponseChanges(hs, hd) ==
  /\ ccState = "open"
  /\ response.type = "object"
  /\ response' = [response EXCEPT !.headersSent = hs, !.headers = hd]
  /\ response' # response
  /\ UNCHANGED <<ccState, given, headerReads, parser, emitError, objectMode, bufs, ccIn,
                 parserCalls, parseErrorCalls, thrown, ccRs>>
  /\ UNCHANGED ccOthers

\* Faulty variant: the newest chunk goes first.
BufferedFirst(list, chunk) == <<chunk>> \o list

\* bufs.push(chunk)
Buffered(list, chunk) == Append(list, chunk)

\* The per-chunk handler.
ConcaterTransform(chunk) ==
  /\ ccState = "open"
  /\ Len(ccIn) < MaxBodyChunks
  /\ ccIn' = Append(ccIn, chunk)
  /\ bufs' = Buffered(bufs, chunk)
  /\ ccRs' = TransformCb(ccRs, JsUndefined)
  /\ UNCHANGED <<ccState, response, given, headerReads, parser, emitError, objectMode,
                 parserCalls, parseErrorCalls, thrown>>
  /\ UNCHANGED ccOthers

\* Faulty variant: the parser's result is pushed as data.
EmitErrorAsData(rs, er) == PushNull(Push(rs, TRUE, er))

\* Faulty variant: the callback is called a second time.
EmitErrorTwice(rs, er) == PushNull(FlushCb(FlushCb(rs, er), er))

\* cb(parser(...)); this.push(null)
EmitError(rs, er) == PushNull(FlushCb(rs, er))

\* The flush handler, run once when the upstream ends.
ConcaterFlush ==
  LET text == BufferToString(BufferConcat(bufs))
  IN  /\ ccState = "open"
      /\ ccState' = "flushed"
      /\ IF emitError
         THEN IF isFunction(parser)
              THEN /\ parserCalls' = Append(parserCalls, text)
                   /\ parseErrorCalls' = parseErrorCalls \o ParseErrorCallsOf(parser, text)
                   /\ ccRs' = EmitError(ccRs, CallParser(parser, text))
                   /\ thrown' = thrown
              ELSE /\ thrown' = Append(thrown, NotAFunction)
                   /\ UNCHANGED <<parserCalls, parseErrorCalls, ccRs>>
         ELSE /\ thrown' = thrown
              /\ IF Len(bufs) # 0
                 THEN IF parser.truthy
                      THEN /\ parserCalls' = Append(parserCalls, text)
                           /\ parseErrorCalls' = parseErrorCalls \o ParseErrorCallsOf(parser, text)
                           /\ ccRs' = FlushCb(Push(ccRs, objectMode, CallParser(parser, text)),
                                              JsUndefined)
                      ELSE /\ UNCHANGED <<parserCalls, parseErrorCalls>>
                           /\ ccRs' = FlushCb(Push(ccRs, objectMode, JsBuffer(BufferConcat(bufs))),
                                              JsUndefined)
                 ELSE /\ UNCHANGED <<parserCalls, parseErrorCalls>>
                      /\ ccRs' = FlushCb(ccRs, JsUndefined)
      /\ UNCHANGED <<response, given, headerReads, parser, emitError, objectMode, bufs, ccIn>>
      /\ UNCHANGED ccOthers

ConcaterInit ==
  /\ ccState = "none"
  /\ response = JsUndefined
  /\ given = JsUndefined
  /\ headerReads = <<>>
  /\ parser = JsUndefined
  /\ emitError = FALSE
  /\ objectMode = FALSE
  /\ bufs = <<>>
  /\ ccIn = <<>>
  /\ parserCalls = <<>>
  /\ parseErrorCalls = <<>>
  /\ thrown = <<>>
  /\ ccRs = NewReadable

ConcaterNext ==
  \/ \E p \in ParserArgs, e \in BOOLEAN : getConcater(p, e)
  \/ \E resp \in Responses : getErrorTransformer(resp)
  \/ \E hs \in BOOLEAN, hd \in HeaderSets : ResponseChanges(hs, hd)
  \/ \E chunk \in Chunks : ConcaterTransform(chunk)
  \/ ConcaterFlush

\* -------------------------------------------------------- getHashSummer

\* Crypto.createHash(algorithm): a hash object is the algorithm and the bytes
\* it was fed; its digest is a value that stands for the algorithm's hash of
\* exactly those bytes.
createHash(algorithm) == [algorithm |-> algorithm, data |-> <<>>]

\* Faulty variant: the hash starts afresh with every chunk.
updateRestarts(hash, chunk) == [hash EXCEPT !.data = chunk]

\* hash.update(chunk)
update(hash, chunk) == [hash EXCEPT !.data = @ \o chunk]

\* hash.digest(encoding): a string, the hash of the bytes fed, encoded
digest(hash, encoding) ==
  [type |-> "string", truthy |-> TRUE, algorithm |-> hash.algorithm,
   encoding |-> encoding, of |-> hash.data]

\* Faulty variant: sha256 is updated in either mode.
UpdatesSha256Always(anon) == TRUE

\* if (!anonymous)
UpdatesSha256(anon) == ~anon

\* hashData: {md5sum}, and sha256sum if not anonymous
HashData(anon, md5Hash, sha256Hash) ==
  IF ~anon
  THEN [type |-> "object", truthy |-> TRUE, md5sum |-> digest(md5Hash, "base64"),
        sha256sum |-> digest(sha256Hash, "hex")]
  ELSE [type |-> "object", truthy |-> TRUE, md5sum |-> digest(md5Hash, "base64")]

getHashSummer(anon) ==
  /\ hsState = "none"
  /\ hsState' = "open"
  /\ anonymous' = anon
  /\ md5' = createHash("md5")
  /\ sha256' = createHash("sha256")
  /\ hsIn' = <<>>
  /\ hsRs' = NewReadable
  /\ UNCHANGED hsOthers

\* The per-chunk handler.
HashSummerTransform(chunk) ==
  /\ hsState = "open"
  /\ Len(hsIn) < MaxHashChunks
  /\ hsIn' = Append(hsIn, chunk)
  /\ md5' = update(md5, chunk)
  /\ sha256' = IF UpdatesSha256(anonymous) THEN update(sha256, chunk) ELSE sha256
  /\ hsRs' = TransformCb(hsRs, JsUndefined)
  /\ UNCHANGED <<hsState, anonymous>>
  /\ UNCHANGED hsOthers

\* Faulty variant: end-of-stream is signalled before the record is pushed.
EmitSummaryLate(rs, hashData) == Push(PushNull(rs), TRUE, hashData)

\* this.push(hashData); this.push(null)
EmitSummary(rs, hashData) == PushNull(Push(rs, TRUE, hashData))

\* The flush handler, run once when the upstream ends; it does not call cb.
HashSummerFlush ==
  /\ hsState = "open"
  /\ hsState' = "flushed"
  /\ hsRs' = EmitSummary(hsRs, HashData(anonymous, md5, sha256))
  /\ UNCHANGED <<anonymous, md5, sha256, hsIn>>
  /\ UNCHANGED hsOthers

HashSummerInit ==
  /\ hsState = "none"
  /\ anonymous = FALSE
  /\ md5 = createHash("md5")
  /\ sha256 = createHash("sha256")
  /\ hsIn = <<>>
  /\ hsRs = NewReadable

HashSummerNext ==
  \/ \E anon \in BOOLEAN : getHashSummer(anon)
  \/ \E chunk \in Chunks : HashSummerTransform(chunk)
  \/ HashSummerFlush

\* ------------------------------------------- two instances of one stage

\* Faulty variant: the variable is one for all calls (declared outside the
\* function), so the handlers of every instance see the same one.
Shared(own, current) == current

\* A var declared inside getSizeLimiter, getConcater or getHashSummer is
\* created by each call: the handlers of an instance see its own.
Own(own, current) == own

\* The instance whose handlers run next.
SizeLimiterInstance ==
  [slState |-> slState, size |-> size, sizeRemaining |-> sizeRemaining,
   slIn |-> slIn, slCalls |-> slCalls, slRs |-> slRs]

ConcaterInstance ==
  [ccState |-> ccState, response |-> response, given |-> given,
   headerReads |-> headerReads, parser |-> parser, emitError |-> emitError,
   objectMode |-> objectMode, bufs |-> bufs, ccIn |-> ccIn,
   parserCalls |-> parserCalls, parseErrorCalls |-> parseErrorCalls,
   thrown |-> thrown, ccRs |-> ccRs]

HashSummerInstance ==
  [hsState |-> hsState, anonymous |-> anonymous, md5 |-> md5, sha256 |-> sha256,
   hsIn |-> hsIn, hsRs |-> hsRs]

\* The next event is for the other size limiter: its handlers run with what
\* its own call of getSizeLimiter created.
SwitchSizeLimiter ==
  /\ slParked' = SizeLimiterInstance
  /\ slState' = slParked.slState
  /\ size' = slParked.size
  /\ sizeRemaining' = Own(slParked.sizeRemaining, sizeRemaining)
  /\ slIn' = slParked.slIn
  /\ slCalls' = slParked.slCalls
  /\ slRs' = slParked.slRs
  /\ UNCHANGED <<ccVars, hsVars, ccParked, hsParked>>

\* The next event is for the other concater.
SwitchConcater ==
  /\ ccParked' = ConcaterInstance
  /\ ccState' = ccParked.ccState
  /\ response' = ccParked.response
  /\ given' = ccParked.given
  /\ headerReads' = ccParked.headerReads
  /\ parser' = ccParked.parser
  /\ emitError' = ccParked.emitError
  /\ objectMode' = ccParked.objectMode
  /\ bufs' = Own(ccParked.bufs, bufs)
  /\ ccIn' = ccParked.ccIn
  /\ parserCalls' = ccParked.parserCalls
  /\ parseErrorCalls' = ccParked.parseErrorCalls
  /\ thrown' = ccParked.thrown
  /\ ccRs' = ccParked.ccRs
  /\ UNCHANGED <<slVars, hsVars, slParked, hsParked>>

\* The next event is for the other hash summer.
SwitchHashSummer ==
  /\ hsParked' = HashSummerInstance
  /\ hsState' = hsParked.hsState
  /\ anonymous' = hsParked.anonymous
  /\ md5' = Own(hsParked.md5, md5)
  /\ sha256' = Own(hsParked.sha256, sha256)
  /\ hsIn' = hsParked.hsIn
  /\ hsRs' = hsParked.hsRs
  /\ UNCHANGED <<slVars, ccVars, slParked, ccParked>>

PairInit ==
  /\ slParked = [slState |-> "none", size |-> 0, sizeRemaining |-> 0,
                 slIn |-> <<>>, slCalls |-> <<>>, slRs |-> NewReadable]
  /\ ccParked = [ccState |-> "none", response |-> JsUndefined, given |-> JsUndefined,
                 headerReads |-> <<>>, parser |-> JsUndefined, emitError |-> FALSE,
                 objectMode |-> FALSE, bufs |-> <<>>, ccIn |-> <<>>,
                 parserCalls |-> <<>>, parseErrorCalls |-> <<>>,
                 thrown |-> <<>>, ccRs |-> NewReadable]
  /\ hsParked = [hsState |-> "none", anonymous |-> FALSE, md5 |-> createHash("md5"),
                 sha256 |-> createHash("sha256"), hsIn |-> <<>>, hsRs |-> NewReadable]

\* No instance of the stage has been built.
NoSizeLimiter == slState = "none" /\ slParked.slState = "none"
NoConcater == ccState = "none" /\ ccParked.ccState = "none"
NoHashSummer == hsState = "none" /\ hsParked.hsState = "none"

PairChunks == SeqsUpTo(Bytes, MaxPairChunkLen)

PairParserArgs == {JsUndefined, JsFunction("parse")}

\* Two instances of one stage, their events interleaved in any order.
PairGetSizeLimiter(n) == NoConcater /\ NoHashSummer /\ getSizeLimiter(n)

PairSizeLimiterTransform(chunk) ==
  Len(slIn) < MaxPairChunks /\ SizeLimiterTransform(chunk)

PairGetConcater(p, e) == NoSizeLimiter /\ NoHashSummer /\ getConcater(p, e)

PairConcaterTransform(chunk) ==
  Len(ccIn) < MaxPairChunks /\ ConcaterTransform(chunk)

PairGetHashSummer(anon) == NoSizeLimiter /\ NoConcater /\ getHashSummer(anon)

PairHashSummerTransform(chunk) ==
  Len(hsIn) < MaxPairChunks /\ HashSummerTransform(chunk)

PairNext ==
  \/ \E n \in 0..MaxPairSize : PairGetSizeLimiter(n)
  \/ \E chunk \in PairChunks : PairSizeLimiterTransform(chunk)
  \/ SizeLimiterFlush
  \/ SwitchSizeLimiter
  \/ \E p \in PairParserArgs, e \in BOOLEAN : PairGetConcater(p, e)
  \/ \E chunk \in PairChunks : PairConcaterTransform(chunk)
  \/ ConcaterFlush
  \/ SwitchConcater
  \/ \E anon \in BOOLEAN : PairGetHashSummer(anon)
  \/ \E chunk \in PairChunks : PairHashSummerTransform(chunk)
  \/ HashSummerFlush
  \/ SwitchHashSummer

\* -------------------------------------------------------- specifications

Init == SizeLimiterInit /\ ConcaterInit /\ HashSummerInit /\ PairInit

\* The stages are independent instances: a step is a step of one of them.
Next ==
  \/ SizeLimiterNext
  \/ ConcaterNext
  \/ HashSummerNext
  \/ SwitchSizeLimiter
  \/ SwitchConcater
  \/ SwitchHashSummer

Spec == Init /\ [][Next]_vars

\* One size limiter alone.
SizeLimiterSpec == Init /\ [][SizeLimiterNext]_vars

\* One concater (or error transformer) alone.
ConcaterSpec == Init /\ [][ConcaterNext]_vars

\* One hash summer alone.
HashSummerSpec == Init /\ [][HashSummerNext]_vars

\* Two size limiters, two concaters or two hash summers.
PairSpec == Init /\ [][PairNext]_vars

\* ================================================= getSizeLimiter: claims

Last(s) == s[Len(s)]

\* The bytes of the Buffers delivered downstream, in order.
RECURSIVE BytesOf(_)
BytesOf(items) ==
  IF items = <<>> THEN <<>> ELSE Head(items).bytes \o BytesOf(Tail(items))

\* The chunks the handlers passed to this.push, in order.
RECURSIVE PushedChunks(_)
PushedChunks(calls) ==
  IF calls = <<>> THEN <<>>
  ELSE IF Head(calls).op = "push"
       THEN <<Head(calls).chunk>> \o PushedChunks(Tail(calls))
       ELSE PushedChunks(Tail(calls))

RECURSIVE CountOp(_, _)
CountOp(calls, op) ==
  IF calls = <<>> THEN 0
  ELSE (IF Head(calls).op = op THEN 1 ELSE 0) + CountOp(Tail(calls), op)

\* What is left of an expected size n after the first k chunks of "chunks".
RECURSIVE LeftAfter(_, _, _)
LeftAfter(n, chunks, k) ==
  IF k = 0 THEN n
  ELSE LET before == LeftAfter(n, chunks, k - 1)
       IN  IF Len(chunks[k]) <= before THEN before - Len(chunks[k]) ELSE 0

\* The value a decimal numeral (a sequence of digit pieces) denotes.
DigitValue(d) == CHOOSE v \in 0..9 : Digit(v) = d

RECURSIVE ParseDecimal(_)
ParseDecimal(ds) ==
  IF Len(ds) = 1 THEN DigitValue(ds[1])
  ELSE 10 * ParseDecimal(SubSeq(ds, 1, Len(ds) - 1)) + DigitValue(Last(ds))

IsNumeral(ds) ==
  /\ Len(ds) >= 1
  /\ \A i \in 1..Len(ds) : \E v \in 0..9 : Digit(v) = ds[i]
  /\ Len(ds) > 1 => ds[1] # "0"

\* C1: the concatenation of what the size limiter forwards is the first
\* min(size, input length) bytes of the concatenated input; each chunk is
\* pushed whole when it fits in what remained before it, and cut to exactly
\* what remained otherwise.
C1_Truncation ==
  slState # "none" =>
    LET input == BufferConcat(slIn)
        pushed == PushedChunks(slCalls)
        prefix == SubSeq(input, 1, Min(size, Len(input)))
    IN  /\ BytesOf(slRs.out) = prefix
        /\ BufferConcat(pushed) = prefix
        /\ Len(pushed) = Len(slIn)
        /\ \A i \in 1..Len(slIn) :
             LET before == LeftAfter(size, slIn, i - 1)
             IN  pushed[i] = IF Len(slIn[i]) <= before
                             THEN slIn[i]
                             ELSE SubSeq(slIn[i], 1, before)

\* size 3, chunks of 2 and 2 bytes: 2 bytes forwarded whole, then 1 of 2.
C1_Witness ==
  /\ size = 3
  /\ Len(slIn) = 2 /\ Len(slIn[1]) = 2 /\ Len(slIn[2]) = 2 /\ slIn[2][1] # slIn[2][2]
  /\ Len(slRs.out) = 2
  /\ slRs.out[1].bytes = slIn[1]
  /\ slRs.out[2].bytes = <<slIn[2][1]>>

\* The flush step with sizeRemaining not zero raises exactly one
\* IncorrectSizeError whose message carries the expected size given at
\* construction and does not signal end-of-stream; with sizeRemaining zero
\* it signals end-of-stream and raises nothing.
C2_FlushStep ==
  (slState = "open" /\ slState' = "flushed") =>
    IF sizeRemaining # 0
    THEN /\ Len(slRs'.errors) = Len(slRs.errors) + 1
         /\ SubSeq(slRs'.errors, 1, Len(slRs.errors)) = slRs.errors
         /\ LET e == Last(slRs'.errors)
                m == e.message
            IN  /\ e.name = "IncorrectSizeError"
                /\ Len(m) >= 3
                /\ m[1] = "size of the input stream is not equal to the expected size("
                /\ Last(m) = ")"
                /\ IsNumeral(SubSeq(m, 2, Len(m) - 1))
                /\ ParseDecimal(SubSeq(m, 2, Len(m) - 1)) = size
         /\ ~slRs'.ended
         /\ slRs'.out = slRs.out
         /\ CountOp(slCalls', "push(null)") = CountOp(slCalls, "push(null)")
    ELSE /\ slRs'.ended
         /\ slRs'.errors = slRs.errors
         /\ slRs'.out = slRs.out

\* C2: every flush step raises exactly one IncorrectSizeError naming the
\* expected size and no end-of-stream when sizeRemaining is not zero, and
\* end-of-stream with no error when it is zero.
C2_ShortInput == [][C2_FlushStep]_vars

\* size 3, upstream ended after 2 bytes.
C2_Witness ==
  /\ slState = "flushed"
  /\ size = 3
  /\ Len(BufferConcat(slIn)) = 2
  /\ Len(slRs.errors) = 1
  /\ slRs.errors[1].name = "IncorrectSizeError"
  /\ ~slRs.ended

\* The step of a chunk that leaves sizeRemaining zero pushes the
\* (possibly cut) chunk, then unpipes stream and chunker, then signals
\* end-of-stream, all before its callback; stream and chunker are unpiped
\* equally often, one right after the other.
C3_LimitStep ==
  (Len(slIn') = Len(slIn) + 1 /\ sizeRemaining' = 0) =>
    LET chunk == Last(slIn')
        forwarded == SubSeq(chunk, 1, Min(Len(chunk), sizeRemaining))
    IN  /\ slCalls' = slCalls \o <<Call("push", forwarded),
                                   Call("stream.unpipe", <<>>),
                                   Call("chunker.unpipe", <<>>),
                                   Call("push(null)", <<>>),
                                   Call("cb", <<>>)>>
        /\ slRs'.ended
        /\ ~slRs.ended => slRs'.out = Append(slRs.out, JsBuffer(forwarded))

C3_Together ==
  /\ CountOp(slCalls, "stream.unpipe") = CountOp(slCalls, "chunker.unpipe")
  /\ \A i \in 1..Len(slCalls) :
       slCalls[i].op = "stream.unpipe" =>
         i < Len(slCalls) /\ slCalls[i + 1].op = "chunker.unpipe"

\* C3: every step that leaves sizeRemaining zero pushes the chunk, unpipes
\* both producers and signals end-of-stream, in that order, and the two
\* producers are always unpiped together.
C3_StopOnLimit == []C3_Together /\ [][C3_LimitStep]_vars

\* The second chunk brought sizeRemaining from 1 to zero.
C3_Witness ==
  /\ size = 3
  /\ Len(slIn) = 2 /\ Len(slIn[1]) = 2 /\ Len(slIn[2]) >= 1
  /\ sizeRemaining = 0
  /\ slRs.ended
  /\ CountOp(slCalls, "stream.unpipe") = 1
  /\ CountOp(slCalls, "chunker.unpipe") = 1

\* Once constructed, 0 <= sizeRemaining <= size; no step increases
\* sizeRemaining and no step changes size.
C4_Range == slState # "none" => (0 <= sizeRemaining /\ sizeRemaining <= size)

C4_Step == slState # "none" => (sizeRemaining' <= sizeRemaining /\ size' = size)

\* C4: sizeRemaining stays within 0..size, never increases, and size never
\* changes.
C4_Counter == []C4_Range /\ [][C4_Step]_vars

\* A chunk longer than what remained was delivered.
C4_Witness ==
  /\ size = 3
  /\ Len(slIn) = 2 /\ Len(slIn[1]) = 2 /\ Len(slIn[2]) = 2
  /\ sizeRemaining = 0

\* C5: when end-of-stream was signalled and no error raised, sizeRemaining
\* is zero and exactly size bytes were forwarded.
C5_ExactCount ==
  (slState # "none" /\ slRs.ended /\ slRs.errors = <<>>) =>
    (sizeRemaining = 0 /\ Len(BytesOf(slRs.out)) = size)

\* End-of-stream by the zero-remaining path, then the upstream ended.
C5_Witness ==
  /\ slState = "flushed"
  /\ size = 3
  /\ Len(slIn) = 2
  /\ slRs.ended
  /\ slRs.errors = <<>>
  /\ Len(BytesOf(slRs.out)) = 3
\* ==================================================== getConcater: claims

\* The chunks joined, last chunk last.
RECURSIVE Joined(_)
Joined(chunks) ==
  IF chunks = <<>> THEN <<>>
  ELSE Joined(SubSeq(chunks, 1, Len(chunks) - 1)) \o Last(chunks)

NoParser == response = JsUndefined /\ parser.type \in {"undefined", "null"}

\* C6: a concater without parser emits nothing before completion; at
\* completion it emits the joined bytes as its only output unit when at
\* least one byte was received, and nothing when none was.
C6_NoParser ==
  (ccState \in {"open", "flushed"} /\ NoParser /\ ~emitError) =>
    IF ccState = "flushed"
    THEN /\ ccRs.out = IF Joined(bufs) # <<>> THEN <<JsBuffer(Joined(bufs))>> ELSE <<>>
         /\ ccRs.errors = <<>>
         /\ thrown = <<>>
    ELSE ccRs.out = <<>>

\* Two chunks, three bytes, one output unit.
C6_Witness ==
  /\ ccState = "flushed"
  /\ NoParser /\ ~emitError
  /\ bufs = <<<<65>>, <<255, 65>>>>
  /\ ccRs.out = <<JsBuffer(<<65, 255, 65>>)>>

\* C7 as claimed: in error mode the parser's return value is raised as an
\* error whatever it is.
C7_EveryValue ==
  (ccState = "flushed" /\ emitError /\ isFunction(parser)) =>
    LET text == BufferToString(Joined(bufs))
    IN  /\ parserCalls = <<text>>
        /\ ccRs.errors = <<CallParser(parser, text)>>
        /\ ccRs.out = <<>>
        /\ ccRs.ended

\* C7, amended: in error mode the parser is called exactly once, at
\* completion, on the joined text (empty when no byte was received); its
\* return value is raised as an error if it is truthy and raises nothing if
\* it is falsy; it is never emitted as data, nothing else is, and
\* end-of-stream is signalled.
C7_ErrorMode ==
  (ccState \in {"open", "flushed"} /\ emitError /\ isFunction(parser)) =>
    LET text == BufferToString(Joined(bufs))
        returned == CallParser(parser, text)
    IN  IF ccState = "flushed"
        THEN /\ parserCalls = <<text>>
             /\ ccRs.errors = IF returned.truthy THEN <<returned>> ELSE <<>>
             /\ ccRs.out = <<>>
             /\ ccRs.ended
        ELSE /\ parserCalls = <<>>
             /\ ccRs = NewReadable

\* No chunk at all: the parser got the empty string, its result was raised.
C7_Witness ==
  /\ ccState = "flushed"
  /\ emitError
  /\ parser = JsFunction("parse")
  /\ bufs = <<>>
  /\ parserCalls = <<<<>>>>
  /\ ccRs.errors = <<[type |-> "object", truthy |-> TRUE, parsed |-> <<>>]>>
  /\ ccRs.out = <<>>
  /\ ccRs.ended

\* C8: with a parser and emitError false, at completion the concater emits
\* parse(text) as its only output unit when the input carried at least one
\* byte, and emits nothing and calls no parser when it carried none (no
\* chunk, or zero-length chunks only).
C8_ParsedOutput ==
  (ccState = "flushed" /\ isFunction(parser) /\ ~emitError) =>
    LET text == BufferToString(Joined(bufs))
    IN  IF Joined(bufs) # <<>>
        THEN /\ parserCalls = <<text>>
             /\ ccRs.out = <<CallParser(parser, text)>>
        ELSE /\ parserCalls = <<>>
             /\ ccRs.out = <<>>

\* A parser argument that is given and is not a function.
Present(p) == p.type \notin {"undefined", "null"}

\* C9 as claimed: every parser argument that is present and not callable,
\* the falsy ones included, makes getConcater throw a TypeError.
C9_EveryNonCallable ==
  (ccState # "none" /\ Present(parser) /\ ~isFunction(parser)) =>
    /\ ccState = "threw"
    /\ Len(thrown) = 1 /\ thrown[1].name = "TypeError"

\* C9, amended: a truthy parser argument that is not callable makes
\* getConcater throw a TypeError at once: no stream exists, so no chunk is
\* accepted and no parser call made; a falsy argument is taken as no parser
\* and getConcater returns a stream not in object mode.
C9_Construction ==
  ccState # "none" =>
    IF parser.truthy /\ ~isFunction(parser)
    THEN /\ ccState = "threw"
         /\ thrown = <<ParserTypeError>>
         /\ bufs = <<>>
         /\ parserCalls = <<>>
         /\ ccRs = NewReadable
    ELSE /\ ccState # "threw"
         /\ ~isFunction(parser) => ~objectMode

\* getConcater(42) threw.
C9_Witness ==
  /\ ccState = "threw"
  /\ parser = JsNumber(42)
  /\ thrown = <<ParserTypeError>>

\* ============================================ getErrorTransformer: claims

C10_Mapped == {301, 307, 403, 404, 405, 501}

C10_Kind(sc) ==
  CASE sc = 301 -> "MovedPermanently"
    [] sc = 307 -> "TemporaryRedirect"
    [] sc = 403 -> "AccessDenied"
    [] sc = 404 -> "NotFound"
    [] sc \in {405, 501} -> "MethodNotAllowed"
    [] OTHER -> "UnknownError"

C10_Message(sc) ==
  CASE sc = 301 -> <<"Moved Permanently">>
    [] sc = 307 -> <<"Are you using the correct endpoint URL?">>
    [] sc = 403 -> <<"Valid and authorized credentials required">>
    [] sc = 404 -> <<"Not Found">>
    [] sc \in {405, 501} -> <<"Method Not Allowed">>

C10_Header(name) == IF given.headersSent THEN given.headers[name] ELSE JsNull

\* C10: on an empty body the error transformer raises one error whose code
\* and message are those of the status table (the decimal numeral of the
\* status code for an unmapped one), carrying the three header fields.
C10_StatusMapping ==
  (ccState = "flushed" /\ response.type = "object" /\ Joined(bufs) = <<>>) =>
    /\ Len(ccRs.errors) = 1
    /\ LET e == ccRs.errors[1]
           sc == response.statusCode
       IN  /\ e.type = "error"
           /\ e.code = C10_Kind(sc)
           /\ IF sc \in C10_Mapped
              THEN e.message = C10_Message(sc)
              ELSE IsNumeral(e.message) /\ ParseDecimal(e.message) = sc
           /\ e.amzRequestid = C10_Header("x-amz-request-id")
           /\ e.amzId2 = C10_Header("x-amz-id-2")
           /\ e.amzBucketRegion = C10_Header("x-amz-bucket-region")

\* Status 418, empty body.
C10_Witness ==
  /\ ccState = "flushed"
  /\ response.type = "object"
  /\ response.statusCode = 418
  /\ response.headersSent
  /\ bufs = <<>>
  /\ Len(ccRs.errors) = 1
  /\ ccRs.errors[1].code = "UnknownError"
  /\ ccRs.errors[1].message = <<"4", "1", "8">>
  /\ ccRs.errors[1].amzRequestid = JsString("x-amz-request-id")

\* ---------------------------------------------------------------------------
\* C11: delegation to the XML error parser
\* ---------------------------------------------------------------------------

ErrorTransformer == response.type = "object"

\* C11: the error transformer calls xmlParsers.parseError iff the joined body
\* text is non-empty; it is then called once, at completion, with the whole
\* body text and the header snapshot, and the error the stage raises is its
\* result; on an empty body it is never called.
C11_Delegation ==
  ErrorTransformer =>
    LET text == BufferToString(Joined(ccIn))
        snapshot == HeaderInfo(given)
    IN  IF ccState = "flushed" /\ text # <<>>
        THEN /\ parseErrorCalls = <<[xmlString |-> text, headerInfo |-> snapshot]>>
             /\ ccRs.errors = <<parseError(text, snapshot)>>
        ELSE parseErrorCalls = <<>>

\* A two-chunk body went to parseError whole.
C11_Witness ==
  /\ ErrorTransformer
  /\ ccState = "flushed"
  /\ Len(ccIn) = 2
  /\ ccIn[1] # <<>>
  /\ ccIn[2] # <<>>
  /\ Len(parseErrorCalls) = 1
  /\ parseErrorCalls[1].xmlString = BufferToString(ccIn[1] \o ccIn[2])
  /\ Len(ccRs.errors) = 1
  /\ ccRs.errors[1].xml = parseErrorCalls[1].xmlString

\* ---------------------------------------------------------------------------
\* C12: exactly one failure per run of the error transformer
\* ---------------------------------------------------------------------------

\* C12: for every status code and every body, the error transformer raises
\* no error and emits no data while the body arrives, and at completion has
\* raised exactly one error, as a stream error, and emitted no data item.
C12_ExactlyOne ==
  ErrorTransformer =>
    /\ ccRs.out = <<>>
    /\ thrown = <<>>
    /\ IF ccState = "flushed"
       THEN /\ Len(ccRs.errors) = 1
            /\ ccRs.errors[1].type = "error"
            /\ ccRs.errors[1].name = "S3Error"
       ELSE ccRs.errors = <<>>

\* One error, and no data, after a non-empty body.
C12_Witness ==
  /\ ErrorTransformer
  /\ ccState = "flushed"
  /\ Joined(ccIn) # <<>>
  /\ Len(ccRs.errors) = 1
  /\ ccRs.out = <<>>
  /\ ccRs.ended

\* ---------------------------------------------------------------------------
\* C16: the concater does nothing but buffer before completion
\* ---------------------------------------------------------------------------

\* C16: in every mode (parser or not, emitError or not), before the input
\* has completed nothing is emitted, end-of-stream is not signalled, the
\* parser is not called and no error is raised or thrown; the buffer holds
\* the chunks received so far, in arrival order.
C16_OnlyBuffers ==
  ccState = "open" =>
    /\ ccRs = NewReadable
    /\ parserCalls = <<>>
    /\ parseErrorCalls = <<>>
    /\ thrown = <<>>
    /\ bufs = ccIn

\* Two different chunks are buffered in order by a parsing concater.
C16_Witness ==
  /\ ccState = "open"
  /\ isFunction(parser)
  /\ Len(ccIn) = 2
  /\ ccIn[1] # ccIn[2]
  /\ bufs = ccIn
  /\ ccRs.out = <<>>

\* ---------------------------------------------------------------------------
\* C17: the header snapshot is taken at construction
\* ---------------------------------------------------------------------------

C17_Reads(name) ==
  Cardinality({i \in 1..Len(headerReads) : headerReads[i] = name})

C17_Snapshot ==
  [amzRequestid |-> C10_Header("x-amz-request-id"),
   amzId2 |-> C10_Header("x-amz-id-2"),
   amzBucketRegion |-> C10_Header("x-amz-bucket-region")]

\* C17: getErrorTransformer takes the three snapshot fields once, at
\* construction: the response's headers are read then and never later (each
\* once when headersSent was then true; a field is null without a read when
\* it was false); each field is the header's value at that moment if
\* headersSent was then true and null otherwise; the error raised at
\* completion carries that snapshot (on its own fields for an empty body,
\* through parseError otherwise) whatever the response's headersSent flag and
\* headers have become since.
C17_SnapshotAtConstruction ==
  ErrorTransformer =>
    /\ \A name \in HeaderNames :
         C17_Reads(name) = IF given.headersSent THEN 1 ELSE 0
    /\ parser.headerInfo = C17_Snapshot
    /\ ccState = "flushed" =>
         /\ Len(ccRs.errors) = 1
         /\ LET e == ccRs.errors[1]
            IN  IF Joined(ccIn) = <<>>
                THEN /\ e.amzRequestid = C17_Snapshot.amzRequestid
                     /\ e.amzId2 = C17_Snapshot.amzId2
                     /\ e.amzBucketRegion = C17_Snapshot.amzBucketRegion
                ELSE /\ Len(parseErrorCalls) = 1
                     /\ parseErrorCalls[1].headerInfo = C17_Snapshot
                     /\ e.headerInfo = C17_Snapshot

\* The headers were set and sent after construction; the error raised on the
\* empty body still carries the nulls of the construction-time snapshot.
C17_Witness ==
  /\ ErrorTransformer
  /\ ccState = "flushed"
  /\ ~given.headersSent
  /\ response.headersSent
  /\ response.headers["x-amz-request-id"] = JsString("x-amz-request-id")
  /\ Joined(ccIn) = <<>>
  /\ Len(ccRs.errors) = 1
  /\ ccRs.errors[1].amzRequestid = JsNull
  /\ headerReads = <<>>

\* ---------------------------------------------------------------------------
\* C18, C19: chunks that arrive after the limit was reached
\* ---------------------------------------------------------------------------

\* C18: over any sequence of chunks, those that arrive after the limit was
\* reached included, unpipe is called at most once on each of the two
\* producers.
C18_AtMostOnce ==
  /\ CountOp(slCalls, "stream.unpipe") <= 1
  /\ CountOp(slCalls, "chunker.unpipe") <= 1

C19_LateChunk ==
  /\ slState = "open"
  /\ slRs.ended
  /\ sizeRemaining = 0
  /\ Len(slIn') = Len(slIn) + 1

\* C19: once end-of-stream was signalled because sizeRemaining reached zero,
\* the handling of a later chunk makes no push downstream, not even of a
\* zero-length chunk, and does not signal end-of-stream again.
C19_SilentAfterEnd ==
  [][C19_LateChunk =>
       /\ CountOp(slCalls', "push") = CountOp(slCalls, "push")
       /\ CountOp(slCalls', "push(null)") = CountOp(slCalls, "push(null)")
       /\ slRs' = slRs]_vars

\* ---------------------------------------------------------------------------
\* C13, C14, C15: the hash summer
\* ---------------------------------------------------------------------------

HashSummerBuilt == hsState \in {"open", "flushed"}

\* C13: however the bytes were split into chunks, each hash object that is
\* updated has been fed the concatenation of the chunks in arrival order,
\* each byte once, and the emitted md5sum and (when not anonymous) sha256sum
\* are the digests of exactly that concatenation.
C13_ChunkingIndependence ==
  HashSummerBuilt =>
    /\ md5.data = Joined(hsIn)
    /\ ~anonymous => sha256.data = Joined(hsIn)
    /\ hsState = "flushed" =>
         /\ Len(hsRs.out) = 1
         /\ hsRs.out[1].md5sum.algorithm = "md5"
         /\ hsRs.out[1].md5sum.of = Joined(hsIn)
         /\ ~anonymous =>
              /\ hsRs.out[1].sha256sum.algorithm = "sha256"
              /\ hsRs.out[1].sha256sum.of = Joined(hsIn)

\* Two different non-empty chunks, and both digests.
C13_Witness ==
  /\ hsState = "flushed"
  /\ ~anonymous
  /\ Len(hsIn) = 2
  /\ hsIn[1] # <<>>
  /\ hsIn[2] # <<>>
  /\ hsIn[1] # hsIn[2]
  /\ Len(hsRs.out) = 1
  /\ hsRs.out[1].md5sum.of = hsIn[1] \o hsIn[2]
  /\ hsRs.out[1].sha256sum.of = hsIn[1] \o hsIn[2]

\* C14: for every chunk sequence, the empty one included, the hash summer
\* emits nothing while chunks arrive, and at completion has emitted exactly
\* one summary record and then signalled end-of-stream, with no error.
C14_SingleSummary ==
  /\ hsState = "open" => hsRs = NewReadable
  /\ hsState = "flushed" =>
       /\ Len(hsRs.out) = 1
       /\ hsRs.out[1].type = "object"
       /\ "md5sum" \in DOMAIN hsRs.out[1]
       /\ hsRs.ended
       /\ hsRs.errors = <<>>

\* Three chunks went by; one record came out at completion.
C14_Witness ==
  /\ hsState = "flushed"
  /\ Len(hsIn) = 3
  /\ Len(hsRs.out) = 1
  /\ hsRs.ended

\* C15: the summary record always has md5sum (base64); it has sha256sum (hex)
\* iff the hash summer was built with anonymous false; built with anonymous
\* true, the sha256 hash object is never updated.
C15_Anonymous ==
  /\ hsState = "flushed" =>
       /\ Len(hsRs.out) = 1
       /\ "md5sum" \in DOMAIN hsRs.out[1]
       /\ hsRs.out[1].md5sum.encoding = "base64"
       /\ ("sha256sum" \in DOMAIN hsRs.out[1]) <=> ~anonymous
       /\ ~anonymous => hsRs.out[1].sha256sum.encoding = "hex"
  /\ (HashSummerBuilt /\ anonymous) => sha256 = createHash("sha256")

\* Anonymous, bytes went by: md5sum only, sha256 untouched.
C15_Witness ==
  /\ hsState = "flushed"
  /\ anonymous
  /\ Joined(hsIn) # <<>>
  /\ Len(hsRs.out) = 1
  /\ "sha256sum" \notin DOMAIN hsRs.out[1]
  /\ hsRs.out[1].md5sum.of = Joined(hsIn)
  /\ sha256.data = <<>>

\* ---------------------------------------------------------------------------
\* C20: instances do not interfere
\* ---------------------------------------------------------------------------

\* A step seen from the two size limiters: either the events change hands and
\* each instance is as it was left, or the waiting instance is untouched and
\* the other one makes a step that it can make when driven alone (or none).
C20_SizeLimiters ==
  \/ /\ slParked' = SizeLimiterInstance
     /\ SizeLimiterInstance' = slParked
  \/ /\ slParked' = slParked
     /\ SizeLimiterInstance' = SizeLimiterInstance \/ SizeLimiterNext

C20_Concaters ==
  \/ /\ ccParked' = ConcaterInstance
     /\ ConcaterInstance' = ccParked
  \/ /\ ccParked' = ccParked
     /\ ConcaterInstance' = ConcaterInstance \/ ConcaterNext

C20_HashSummers ==
  \/ /\ hsParked' = HashSummerInstance
     /\ HashSummerInstance' = hsParked
  \/ /\ hsParked' = hsParked
     /\ HashSummerInstance' = HashSummerInstance \/ HashSummerNext

\* Each instance's counter, buffer and hash objects are what its own chunks
\* make them.
C20_OwnState ==
  /\ \A sl \in {SizeLimiterInstance, slParked} :
       sl.slState # "none" =>
         sl.sizeRemaining = LeftAfter(sl.size, sl.slIn, Len(sl.slIn))
  /\ \A cc \in {ConcaterInstance, ccParked} :
       cc.ccState \in {"open", "flushed"} => cc.bufs = cc.ccIn
  /\ \A hs \in {HashSummerInstance, hsParked} :
       hs.hsState # "none" =>
         /\ hs.md5.data = Joined(hs.hsIn)
         /\ hs.sha256.data = IF hs.anonymous THEN <<>> ELSE Joined(hs.hsIn)

\* C20: with two size limiters, two concaters or two hash summers whose
\* chunk and end events are interleaved in any order, every step is a step
\* of one instance as it makes it when driven alone and leaves the other
\* instance's counter, hash objects, buffer, outputs and errors as they
\* were, so what each instance goes through is a run of that instance
\* alone; and each instance's counter, buffer and hash objects depend on its
\* own chunks only.
C20_Isolation ==
  /\ []C20_OwnState
  /\ [][C20_SizeLimiters /\ C20_Concaters /\ C20_HashSummers]_vars

\* Two size limiters, interleaved, each ended as it does alone: the one of
\* size 1 got its byte and ended well, the one of size 2 got one byte and
\* failed with the size error.
C20_Witness ==
  /\ slState = "flushed"
  /\ size = 1
  /\ slIn = <<<<65>>>>
  /\ sizeRemaining = 0
  /\ slRs = [out |-> <<JsBuffer(<<65>>)>>, ended |-> TRUE, errors |-> <<>>]
  /\ slParked.slState = "flushed"
  /\ slParked.size = 2
  /\ slParked.slIn = <<<<255>>>>
  /\ slParked.sizeRemaining = 1
  /\ slParked.slRs = [out |-> <<JsBuffer(<<255>>)>>, ended |-> FALSE,
                      errors |-> <<IncorrectSizeError(2)>>]
====
